---- MODULE Spec2Model ----
(***************************************************************************)
(* dora: path queries ($.a.b[2].c) over a parsed JSON tree.                *)
(*                                                                         *)
(* The model follows pkg/dora (Client, query execution) and pkg/ast (the   *)
(* value tree).  Text is modelled as sequences of one-character strings.   *)
(***************************************************************************)
EXTENDS Integers, Sequences, FiniteSets, TLC

(***************************************************************************)
(* Bounds of the model.                                                    *)
(***************************************************************************)
\* longest compiled query (number of access tokens) the model issues
MaxTokens == 2

(***************************************************************************)
(* Text helpers.                                                           *)
(***************************************************************************)
\* the member of a one-element set; e bound as x \in {e} is evaluated once
Only(S) == CHOOSE x \in S : TRUE

Digits == <<"0", "1", "2", "3", "4", "5", "6", "7", "8", "9">>

IsDigit(ch) == \E d \in 1..10 : Digits[d] = ch

DigitVal(ch) == (CHOOSE d \in 1..10 : Digits[d] = ch) - 1

\* strconv.Itoa on a non-negative int
RECURSIVE Itoa(_)
Itoa(n) == IF n < 10 THEN <<Digits[n + 1]>>
           ELSE Itoa(n \div 10) \o <<Digits[(n % 10) + 1]>>

\* strconv.Atoi on a non-empty run of digits
RECURSIVE Atoi(_)
Atoi(s) == IF Len(s) = 1 THEN DigitVal(s[1])
           ELSE Atoi(SubSeq(s, 1, Len(s) - 1)) * 10 + DigitVal(s[Len(s)])

(***************************************************************************)
(* pkg/ast: the value tree.                                                *)
(***************************************************************************)
\* ast.RootNodeType
ObjectRoot == "ObjectRoot"
ArrayRoot == "ArrayRoot"

\* ast.Type
ObjectType == "Object"
ArrayType == "Array"
LiteralType == "Literal"

\* the dynamic value held by Literal.Value (a Go interface{})
StringVal(s) == [dyn |-> "string", str |-> s, int |-> 0, bool |-> FALSE]
IntVal(n) == [dyn |-> "int", str |-> <<>>, int |-> n, bool |-> FALSE]
BoolVal(b) == [dyn |-> "bool", str |-> <<>>, int |-> 0, bool |-> b]
NilVal == [dyn |-> "nil", str |-> <<>>, int |-> 0, bool |-> FALSE]

\* ast.Literal, ast.Object, ast.Array, ast.Property, ast.Identifier
Literal(v) == [Type |-> LiteralType, Value |-> v]
Object(children, start, end) ==
    [Type |-> ObjectType, Children |-> children, Start |-> start, End |-> end]
Array(children, start, end) ==
    [Type |-> ArrayType, Children |-> children, Start |-> start, End |-> end]
Property(key, value) == [Key |-> [Value |-> key], Value |-> value]

\* the zero values of ast.Object and ast.Array (a failed type assertion)
ZeroObject == Object(<<>>, 0, 0)
ZeroArray == Array(<<>>, 0, 0)

\* Literal.String()
LiteralString(l) ==
    CASE l.Value.dyn = "string" -> l.Value.str
      [] l.Value.dyn = "int" -> Itoa(l.Value.int)
      [] l.Value.dyn = "bool" ->
            IF l.Value.bool THEN <<"t", "r", "u", "e">>
            ELSE <<"f", "a", "l", "s", "e">>
      [] l.Value.dyn = "nil" -> <<"n", "u", "l", "l">>

\* buf[start:end] of Go, on a 1-based sequence
Slice(buf, start, end) == SubSeq(buf, start + 1, end)

(***************************************************************************)
(* Documents.  A document is written as a JSON value (JLit, JArr, JObj);   *)
(* ParseJSON builds the tree from it, with the spans its text has.         *)
(***************************************************************************)
JLit(v) == [j |-> "lit", v |-> v]
JArr(items) == [j |-> "arr", items |-> items]
JObj(props) == [j |-> "obj", props |-> props]

\* the source text of a literal
LitSource(v) ==
    IF v.dyn = "string" THEN <<"\"">> \o v.str \o <<"\"">>
    ELSE LiteralString(Literal(v))

RECURSIVE SourceText(_), ItemsText(_, _), PropsText(_, _)
\* the source text of a document
SourceText(j) ==
    CASE j.j = "lit" -> LitSource(j.v)
      [] j.j = "arr" -> <<"[">> \o ItemsText(j.items, 1) \o <<"]">>
      [] j.j = "obj" -> <<"{">> \o PropsText(j.props, 1) \o <<"}">>

ItemsText(items, k) ==
    IF k > Len(items) THEN <<>>
    ELSE SourceText(items[k])
           \o (IF k < Len(items) THEN <<",">> ELSE <<>>)
           \o ItemsText(items, k + 1)

PropsText(props, k) ==
    IF k > Len(props) THEN <<>>
    ELSE <<"\"">> \o props[k][1] \o <<"\"", ":">> \o SourceText(props[k][2])
           \o (IF k < Len(props) THEN <<",">> ELSE <<>>)
           \o PropsText(props, k + 1)

RECURSIVE ParseValue(_, _), ParseItems(_, _, _), ParseProps(_, _, _)
\* the node of the value whose text starts at byte offset off
ParseValue(j, off) ==
    CASE j.j = "lit" -> Literal(j.v)
      [] j.j = "arr" ->
            Array(ParseItems(j.items, 1, off + 1), off, off + Len(SourceText(j)))
      [] j.j = "obj" ->
            Object(ParseProps(j.props, 1, off + 1), off, off + Len(SourceText(j)))

ParseItems(items, k, off) ==
    IF k > Len(items) THEN <<>>
    ELSE <<ParseValue(items[k], off)>>
           \o ParseItems(items, k + 1, off + Len(SourceText(items[k])) + 1)

ParseProps(props, k, off) ==
    IF k > Len(props) THEN <<>>
    ELSE <<Property(props[k][1], ParseValue(props[k][2], off + Len(props[k][1]) + 3))>>
           \o ParseProps(props, k + 1,
                         off + Len(props[k][1]) + 3 + Len(SourceText(props[k][2])) + 1)

\* parser.ParseJSON: the root node of a document
ParseJSON(j) ==
    [RootValue |-> ParseValue(j, 0),
     Type |-> IF j.j = "obj" THEN ObjectRoot ELSE ArrayRoot]

(***************************************************************************)
(* pkg/dora: query tokens and the query scanner.                           *)
(***************************************************************************)
\* accessType
ObjectAccess == "ObjectAccess"
ArrayAccess == "ArrayAccess"

\* queryToken; the field a token does not use holds Go's zero value
KeyToken(key) == [accessType |-> ObjectAccess, key |-> key, index |-> 0]
IndexToken(index) == [accessType |-> ArrayAccess, key |-> <<>>, index |-> index]

\* error values
NoErr == [name |-> "nil", detail |-> <<>>]
ErrNoDollarSignRoot == [name |-> "ErrNoDollarSignRoot", detail |-> <<>>]
ErrWrongObjectRootSelector == [name |-> "ErrWrongObjectRootSelector", detail |-> <<>>]
ErrWrongArrayRootSelector == [name |-> "ErrWrongArrayRootSelector", detail |-> <<>>]
errSelectorSytax(operator) == [name |-> "errSelectorSytax", detail |-> operator]
ErrAskedObjectFoundArray == [name |-> "AskedObjectFoundArray", detail |-> <<>>]
ErrAskedArrayFoundObject == [name |-> "AskedArrayFoundObject", detail |-> <<>>]
ErrKeyNotFound(key) == [name |-> "KeyNotFound", detail |-> key]
ErrQueryNotQuiteRight == [name |-> "QueryNotQuiteRight", detail |-> <<>>]

\* first position >= i of q holding "." or "[", or Len(q) + 1
RECURSIVE IdentEnd(_, _)
IdentEnd(q, i) ==
    IF i > Len(q) \/ q[i] = "." \/ q[i] = "[" THEN i ELSE IdentEnd(q, i + 1)

\* first position >= i of q holding "]", or 0
RECURSIVE BracketEnd(_, _)
BracketEnd(q, i) ==
    IF i > Len(q) THEN 0
    ELSE IF q[i] = "]" THEN i ELSE BracketEnd(q, i + 1)

RECURSIVE ScanFrom(_, _, _)
ScanFrom(q, i, toks) ==
    IF i > Len(q) THEN [err |-> NoErr, tokens |-> toks]
    ELSE IF q[i] = "." THEN
        LET j == IdentEnd(q, i + 1)
        IN  ScanFrom(q, j, Append(toks, KeyToken(SubSeq(q, i + 1, j - 1))))
    ELSE IF q[i] = "[" THEN
        LET j == BracketEnd(q, i + 1)
            body == SubSeq(q, i + 1, j - 1)
        IN  IF j = 0 THEN
                [err |-> errSelectorSytax(SubSeq(q, i, Len(q))), tokens |-> <<>>]
            ELSE IF body = <<>> \/ \E k \in 1..Len(body) : ~IsDigit(body[k]) THEN
                [err |-> errSelectorSytax(SubSeq(q, i, j)), tokens |-> <<>>]
            ELSE ScanFrom(q, j + 1, Append(toks, IndexToken(Atoi(body))))
    ELSE [err |-> errSelectorSytax(<<q[i]>>), tokens |-> <<>>]

\* scanQueryTokens: the selectors after the root character, in order
scanQueryTokens(query) == ScanFrom(query, 2, <<>>)

(***************************************************************************)
(* pkg/danger.                                                             *)
(***************************************************************************)
\* StringToBytes: the bytes of s (nil for the empty string)
StringToBytes(s) == IF Len(s) = 0 THEN <<>> ELSE [k \in 1..Len(s) |-> s[k]]

(***************************************************************************)
(* pkg/dora: the Client and its query execution.  A client value c is the  *)
(* record of the Client struct's fields.                                   *)
(***************************************************************************)
\* the nil ast.Value
NilValue == [Type |-> "nil"]

\* NewFromString: the client of a parsed document
NewFromString(j) ==
    [input |-> SourceText(j),
     tree |-> ParseJSON(j),
     query |-> <<>>,
     parsedQuery |-> <<>>,
     result |-> <<>>,
     resultValue |-> NilValue]

\* validateQueryRoot; query[0] and query[1] of Go are q[1] and q[2] here, and
\* an index past the end of the string panics
validateQueryRoot(q, rootNodeType) ==
    IF Len(q) < 1 THEN [kind |-> "panic", err |-> NoErr]
    ELSE IF q[1] # "$" THEN [kind |-> "err", err |-> ErrNoDollarSignRoot]
    ELSE IF Len(q) < 2 THEN [kind |-> "panic", err |-> NoErr]
    ELSE IF rootNodeType = ObjectRoot /\ ~(q[2] = ".") THEN
        [kind |-> "err", err |-> ErrWrongObjectRootSelector]
    ELSE IF rootNodeType = ArrayRoot /\ ~(q[2] = "[") THEN
        [kind |-> "err", err |-> ErrWrongArrayRootSelector]
    ELSE [kind |-> "nil", err |-> NoErr]

\* setQuery
setQuery(c, query) == [c EXCEPT !.query = query]

\* parseQuery
parseQuery(c) ==
    LET Scanned(scanned) ==
            IF scanned.err # NoErr THEN [kind |-> "err", err |-> scanned.err, c |-> c]
            ELSE [kind |-> "nil", err |-> NoErr,
                  c |-> [c EXCEPT !.parsedQuery = scanned.tokens]]
    IN  Only({Scanned(scanned) : scanned \in {scanQueryTokens(c.query)}})

\* prepareQuery as it would be with the query scanned before its root is validated
prepareQuery_ScanFirst(c, q) ==
    LET Validated(p, v) ==
            IF p.kind # "nil" THEN p
            ELSE IF v.kind # "nil" THEN [kind |-> v.kind, err |-> v.err, c |-> p.c]
            ELSE p
    IN  Only({Validated(p, v) : p \in {Only({parseQuery(c1) :
                                              c1 \in {setQuery(c, StringToBytes(q))}})},
                               v \in {validateQueryRoot(q, c.tree.Type)}})

\* prepareQuery
prepareQuery(c, q) ==
    LET Validated(v) ==
            IF v.kind # "nil" THEN [kind |-> v.kind, err |-> v.err, c |-> c]
            ELSE Only({parseQuery(c1) : c1 \in {setQuery(c, StringToBytes(q))}})
    IN  Only({Validated(v) : v \in {validateQueryRoot(q, c.tree.Type)}})

\* Object.String and Array.String: the node's span of the source buffer
SpanString(input, val) == Slice(input, val.Start, val.End)

\* setResultFromValue as it would be narrowing the client's tree to the value
setResultFromValue_NarrowsTree(c, value) ==
    LET c1 == [c EXCEPT !.resultValue = value, !.tree.RootValue = value]
    IN  CASE value.Type = LiteralType -> [c1 EXCEPT !.result = LiteralString(value)]
          [] value.Type = ObjectType ->
                [c1 EXCEPT !.result = Slice(c.input, value.Start, value.End)]
          [] value.Type = ArrayType -> [c1 EXCEPT !.result = SpanString(c.input, value)]
          [] OTHER -> c1

\* setResultFromValue
setResultFromValue(c, value) ==
    LET c1 == [c EXCEPT !.resultValue = value]
    IN  CASE value.Type = LiteralType -> [c1 EXCEPT !.result = LiteralString(value)]
          [] value.Type = ObjectType ->
                [c1 EXCEPT !.result = Slice(c.input, value.Start, value.End)]
          [] value.Type = ArrayType -> [c1 EXCEPT !.result = SpanString(c.input, value)]
          [] OTHER -> c1

\* position of the first property of children whose key is key, or 0
FirstKey(children, key) ==
    IF \E k \in 1..Len(children) : children[k].Key.Value = key
    THEN CHOOSE k \in 1..Len(children) :
            /\ children[k].Key.Value = key
            /\ \A m \in 1..(k - 1) : children[m].Key.Value # key
    ELSE 0

\* position of the last property of children whose key is key, or 0
LastKey(children, key) ==
    IF \E k \in 1..Len(children) : children[k].Key.Value = key
    THEN CHOOSE k \in 1..Len(children) :
            /\ children[k].Key.Value = key
            /\ \A m \in (k + 1)..Len(children) : children[m].Key.Value # key
    ELSE 0

\* setFinalValue as it would be without the break of its key loop: the last
\* property of the key sets the result
setFinalValue_LastKey(c, currentType, index, obj, arr) ==
    IF currentType = ObjectType THEN
        LET r == c.parsedQuery[index + 1].key
            k == LastKey(obj.Children, r)
        IN  IF k = 0 THEN [kind |-> "nil", c |-> c]
            ELSE [kind |-> "nil", c |-> setResultFromValue(c, obj.Children[k].Value)]
    ELSE
        LET ind == c.parsedQuery[index + 1].index
        IN  IF ind >= Len(arr.Children) THEN [kind |-> "panic", c |-> c]
            ELSE [kind |-> "nil", c |-> setResultFromValue(c, arr.Children[ind + 1])]

\* setFinalValue
setFinalValue(c, currentType, index, obj, arr) ==
    IF currentType = ObjectType THEN
        LET r == c.parsedQuery[index + 1].key
            k == FirstKey(obj.Children, r)
        IN  IF k = 0 THEN [kind |-> "nil", c |-> c]
            ELSE [kind |-> "nil", c |-> setResultFromValue(c, obj.Children[k].Value)]
    ELSE
        LET ind == c.parsedQuery[index + 1].index
        IN  IF ind >= Len(arr.Children) THEN [kind |-> "panic", c |-> c]
            ELSE [kind |-> "nil", c |-> setResultFromValue(c, arr.Children[ind + 1])]

\* the key scan of executeQuery as it would be with found starting out true
RECURSIVE RangeChildren_AlwaysFound(_, _, _, _)
RangeChildren_AlwaysFound(children, k, key, st) ==
    IF k > Len(children) THEN [st EXCEPT !.found = TRUE]
    ELSE IF children[k].Key.Value = key THEN
        IF children[k].Value.Type = ObjectType THEN
            [st EXCEPT !.found = TRUE, !.obj = children[k].Value,
                       !.currentType = ObjectType]
        ELSE IF children[k].Value.Type = ArrayType THEN
            [st EXCEPT !.found = TRUE, !.arr = children[k].Value,
                       !.currentType = ArrayType]
        ELSE RangeChildren_AlwaysFound(children, k + 1, key, st)
    ELSE RangeChildren_AlwaysFound(children, k + 1, key, st)

\* the key scan of executeQuery (for _, v := range obj.Children), from the
\* k-th property on; st holds found, obj, arr and currentType
RECURSIVE RangeChildren(_, _, _, _)
RangeChildren(children, k, key, st) ==
    IF k > Len(children) THEN st
    ELSE IF children[k].Key.Value = key THEN
        IF children[k].Value.Type = ObjectType THEN
            [st EXCEPT !.found = TRUE, !.obj = children[k].Value,
                       !.currentType = ObjectType]
        ELSE IF children[k].Value.Type = ArrayType THEN
            [st EXCEPT !.found = TRUE, !.arr = children[k].Value,
                       !.currentType = ArrayType]
        ELSE RangeChildren(children, k + 1, key, [st EXCEPT !.found = TRUE])
    ELSE RangeChildren(children, k + 1, key, st)

\* the local variables of executeQuery before its loop
executeQueryStart(c) ==
    LET rootVal == c.tree.RootValue
        ok == rootVal.Type = ArrayType
    IN  [i |-> 0,
         obj |-> IF rootVal.Type = ObjectType THEN rootVal ELSE ZeroObject,
         arr |-> IF ok THEN rootVal ELSE ZeroArray,
         currentType |-> IF ok THEN ArrayType ELSE ObjectType,
         parsedQueryLen |-> Len(c.parsedQuery)]

\* one iteration of the loop of executeQuery, at loc.i < loc.parsedQueryLen
executeQueryIter(c, loc) ==
    IF loc.i >= Len(c.parsedQuery) THEN
        [kind |-> "panic", err |-> NoErr, c |-> c, loc |-> loc]
    ELSE
    LET last == loc.i = loc.parsedQueryLen - 1
        Narrowed(c1, qt, st) ==
            IF ~st.found THEN
                [kind |-> "err", err |-> ErrKeyNotFound(qt.key), c |-> c1, loc |-> loc]
            ELSE
                [kind |-> "continue", err |-> NoErr, c |-> c1,
                 loc |-> [loc EXCEPT !.i = loc.i + 1, !.obj = st.obj,
                                     !.arr = st.arr,
                                     !.currentType = st.currentType]]
        Body(fin, c1, qt) ==
        IF fin.kind = "panic" THEN
            [kind |-> "panic", err |-> NoErr, c |-> c1, loc |-> loc]
        ELSE IF qt.accessType = ObjectAccess THEN
            IF loc.currentType # ObjectType THEN
                [kind |-> "err", err |-> ErrAskedObjectFoundArray, c |-> c1, loc |-> loc]
            ELSE
                Only({Narrowed(c1, qt, st) :
                        st \in {RangeChildren(loc.obj.Children, 1, qt.key,
                                              [found |-> FALSE, obj |-> loc.obj,
                                               arr |-> loc.arr,
                                               currentType |-> loc.currentType])}})
        ELSE
            IF loc.currentType # ArrayType THEN
                [kind |-> "err", err |-> ErrAskedArrayFoundObject, c |-> c1, loc |-> loc]
            ELSE IF qt.index >= Len(loc.arr.Children) THEN
                [kind |-> "panic", err |-> NoErr, c |-> c1, loc |-> loc]
            ELSE
                LET val == loc.arr.Children[qt.index + 1]
                IN  CASE val.Type = ObjectType ->
                            [kind |-> "continue", err |-> NoErr, c |-> c1,
                             loc |-> [loc EXCEPT !.i = loc.i + 1, !.obj = val,
                                                 !.currentType = ObjectType]]
                      [] val.Type = ArrayType ->
                            [kind |-> "continue", err |-> NoErr, c |-> c1,
                             loc |-> [loc EXCEPT !.i = loc.i + 1, !.arr = val,
                                                 !.currentType = ArrayType]]
                      [] val.Type = LiteralType ->
                            IF last THEN
                                [kind |-> "continue", err |-> NoErr,
                                 c |-> setResultFromValue(c1, val),
                                 loc |-> [loc EXCEPT !.i = loc.i + 1]]
                            ELSE
                                [kind |-> "err", err |-> ErrQueryNotQuiteRight,
                                 c |-> c1, loc |-> loc]
    IN  Only({Body(fin, fin.c, fin.c.parsedQuery[loc.i + 1]) :
                fin \in {IF last
                         THEN setFinalValue(c, loc.currentType, loc.i, loc.obj, loc.arr)
                         ELSE [kind |-> "nil", c |-> c]}})

\* the loop of executeQuery from loc on; steps collects the local variables
\* each executed iteration started with
RECURSIVE executeQueryLoop(_, _, _)
executeQueryLoop(c, loc, steps) ==
    IF loc.i >= loc.parsedQueryLen THEN
        [kind |-> "nil", err |-> NoErr, c |-> c, steps |-> steps]
    ELSE
        LET Iterated(r, sts) ==
                IF r.kind = "continue"
                THEN executeQueryLoop(r.c, r.loc, sts)
                ELSE [kind |-> r.kind, err |-> r.err, c |-> r.c, steps |-> sts]
        IN  Only({Iterated(r, sts) : r \in {executeQueryIter(c, loc)},
                                    sts \in {Append(steps, loc)}})

\* executeQuery
executeQuery(c) ==
    Only({executeQueryLoop(c, loc, <<>>) : loc \in {executeQueryStart(c)}})

\* prepAndExecQuery
prepAndExecQuery(c, q) ==
    LET Prepared(p) ==
            IF p.kind # "nil" THEN
                [kind |-> p.kind, err |-> p.err, c |-> p.c, steps |-> <<>>]
            ELSE executeQuery(p.c)
    IN  Only({Prepared(p) : p \in {prepareQuery(c, q)}})

\* the generic (Go) form of a value: Literal.GoType, Array.GoType, Object.GoType
NilGo == [g |-> "nil"]

RECURSIVE GoType(_), ObjectGoType(_, _, _)
\* Array.GoType as it would be appending the items to the slice it made with the
\* length of the array
GoType_AppendsItems(value) ==
    CASE value.Type = LiteralType -> [g |-> "lit", v |-> value.Value]
      [] value.Type = ArrayType ->
            [g |-> "seq",
             s |-> [k \in 1..(2 * Len(value.Children)) |->
                        IF k <= Len(value.Children) THEN NilGo
                        ELSE GoType(value.Children[k - Len(value.Children)])]]
      [] value.Type = ObjectType ->
            [g |-> "map", m |-> ObjectGoType(value.Children, 1, <<>>)]

GoType(value) ==
    CASE value.Type = LiteralType -> [g |-> "lit", v |-> value.Value]
      [] value.Type = ArrayType ->
            [g |-> "seq",
             s |-> [k \in 1..Len(value.Children) |-> GoType(value.Children[k])]]
      [] value.Type = ObjectType ->
            [g |-> "map", m |-> ObjectGoType(value.Children, 1, <<>>)]

\* the loop of Object.GoType from the k-th property on: result[key] = value
ObjectGoType(children, k, result) ==
    IF k > Len(children) THEN result
    ELSE LET key == children[k].Key.Value
             gv == GoType(children[k].Value)
         IN  ObjectGoType(children, k + 1,
                          [x \in (DOMAIN result) \cup {key} |->
                              IF x = key THEN gv ELSE result[x]])

\* what a call hands back to its caller
Returned(kind, err, value, goValue) ==
    [kind |-> kind, err |-> err, value |-> value, goValue |-> goValue]

NotReturned == Returned("none", NoErr, <<>>, NilGo)

\* Client.get as it would be returning c.result beside the error
get_ResultWithError(c, q) ==
    LET Got(r) ==
            [ret |-> IF r.kind = "nil" THEN Returned("ok", NoErr, r.c.result, NilGo)
                     ELSE Returned(r.kind, r.err, r.c.result, NilGo),
             c |-> r.c, steps |-> r.steps]
    IN  Only({Got(r) : r \in {prepAndExecQuery(c, q)}})

\* Client.get: the outcome of the call and the client it leaves
get(c, q) ==
    LET Got(r) ==
            [ret |-> IF r.kind = "nil" THEN Returned("ok", NoErr, r.c.result, NilGo)
                     ELSE Returned(r.kind, r.err, <<>>, NilGo),
             c |-> r.c, steps |-> r.steps]
    IN  Only({Got(r) : r \in {prepAndExecQuery(c, q)}})

\* Client.GetString
GetString(c, q) == get(c, q)

\* Client.GetObject; GoType on a nil resultValue panics
GetObject(c, q) ==
    LET Got(r) ==
            [ret |-> IF r.kind = "nil" THEN
                         IF r.c.resultValue = NilValue
                         THEN Returned("panic", NoErr, <<>>, NilGo)
                         ELSE Returned("ok", NoErr, <<>>, GoType(r.c.resultValue))
                     ELSE Returned(r.kind, r.err, <<>>, NilGo),
             c |-> r.c, steps |-> r.steps]
    IN  Only({Got(r) : r \in {prepAndExecQuery(c, q)}})

(***************************************************************************)
(* pkg/ast of pkg/merge: values carry the whitespace and comments around   *)
(* them, properties their comma.                                           *)
(***************************************************************************)
\* ast.StructuralItemType
WhitespaceStructuralItemType == "Whitespace"
LineCommentStructuralItemType == "LineComment"

\* ast.StructuralItem
StructuralItem(itemType, value) == [ItemType |-> itemType, Value |-> value]

\* ast.Value
AstValue(content, suffixStructure) ==
    [Content |-> content, SuffixStructure |-> suffixStructure]

\* ast.Property
AstProperty(key, value, hasCommaSeparator) ==
    [Key |-> [Value |-> key], Value |-> value,
     HasCommaSeparator |-> hasCommaSeparator]

\* ast.Literal, ast.Object and ast.Array as value contents
AstLiteral(v) == [Type |-> LiteralType, Value |-> v]
AstObject(children, suffixStructure) ==
    [Type |-> ObjectType, Children |-> children, SuffixStructure |-> suffixStructure]
AstArray(children, suffixStructure) ==
    [Type |-> ArrayType, Children |-> children, SuffixStructure |-> suffixStructure]

\* ast.RootNode; RootValue is a pointer to the Value
RootNode(content) ==
    [RootValue |-> AstValue(content, <<>>),
     Type |-> IF content.Type = ObjectType THEN ObjectRoot ELSE ArrayRoot]

\* a nil *ast.RootNode, a nil ast.ValueContent, a nil *ast.Property
NilRootNode == [Type |-> "nil"]
NilContent == [Type |-> "nil"]
NilProperty == [Key |-> "nil"]

(***************************************************************************)
(* pkg/merge.                                                              *)
(***************************************************************************)
\* the errors of mergeValueContent
ErrMisMatchedTypes(currentPath, baseType, mergeType) ==
    [name |-> "mis-matched types", detail |-> <<currentPath, baseType, mergeType>>]
ErrUnhandledType(currentPath, baseType) ==
    [name |-> "unhandled type", detail |-> <<currentPath, baseType>>]

\* getChildByKey as it would be returning from the loop after the first child
getChildByKey_FirstChildOnly(object, key) ==
    IF object.Children # <<>> /\ object.Children[1].Key.Value = key
    THEN object.Children[1]
    ELSE NilProperty

\* getChildByKey: the first child of the object with the key, or nil
getChildByKey(object, key) ==
    LET found == {k \in 1..Len(object.Children) : object.Children[k].Key.Value = key}
    IN  IF found = {} THEN NilProperty
        ELSE object.Children[CHOOSE k \in found : \A m \in found : k <= m]

\* stripWhiteSpace: the loop has a variable of its own, so the slice ends at
\* the zero the outer lastNonWhitespaceIndex was declared with
stripWhiteSpace(structuralItems) ==
    LET lastNonWhitespaceIndex == 0
    IN  Slice(structuralItems, 0, lastNonWhitespaceIndex)

\* the body of the loop of mergeValueContent as it would be without the
\* assignment that adds the comma to the last child
mergeValueContentIter_NoComma(baseContent, mergeContent, mergeChild) ==
    IF getChildByKey(baseContent, mergeChild.Key.Value) # NilProperty THEN
        [kind |-> "continue", baseContent |-> baseContent]
    ELSE
        LET lastChildIndex == Len(baseContent.Children) - 1
            joined == stripWhiteSpace(baseContent.SuffixStructure)
                        \o mergeContent.SuffixStructure
        IN  IF lastChildIndex < 0 THEN
                [kind |-> "panic", baseContent |-> baseContent]
            ELSE
                LET last == baseContent.Children[lastChildIndex + 1]
                    b1 == IF last.HasCommaSeparator THEN
                              [baseContent EXCEPT !.SuffixStructure = joined]
                          ELSE
                              [baseContent EXCEPT
                                  !.Children[lastChildIndex + 1].Value.SuffixStructure =
                                      stripWhiteSpace(last.Value.SuffixStructure),
                                  !.SuffixStructure =
                                      IF mergeChild.HasCommaSeparator
                                      THEN joined ELSE baseContent.SuffixStructure]
                IN  [kind |-> "continue",
                     baseContent |->
                         [b1 EXCEPT !.Children = Append(b1.Children, mergeChild)]]

\* the body of the loop of mergeValueContent for one child of the merge object;
\* Children[lastChildIndex] of an object without children panics
mergeValueContentIter(baseContent, mergeContent, mergeChild) ==
    IF getChildByKey(baseContent, mergeChild.Key.Value) # NilProperty THEN
        [kind |-> "continue", baseContent |-> baseContent]
    ELSE
        LET lastChildIndex == Len(baseContent.Children) - 1
            joined == stripWhiteSpace(baseContent.SuffixStructure)
                        \o mergeContent.SuffixStructure
        IN  IF lastChildIndex < 0 THEN
                [kind |-> "panic", baseContent |-> baseContent]
            ELSE
                LET last == baseContent.Children[lastChildIndex + 1]
                    b1 == IF last.HasCommaSeparator THEN
                              [baseContent EXCEPT !.SuffixStructure = joined]
                          ELSE
                              [baseContent EXCEPT
                                  !.Children[lastChildIndex + 1].HasCommaSeparator = TRUE,
                                  !.Children[lastChildIndex + 1].Value.SuffixStructure =
                                      stripWhiteSpace(last.Value.SuffixStructure),
                                  !.SuffixStructure =
                                      IF mergeChild.HasCommaSeparator
                                      THEN joined ELSE baseContent.SuffixStructure]
                IN  [kind |-> "continue",
                     baseContent |->
                         [b1 EXCEPT !.Children = Append(b1.Children, mergeChild)]]

\* the loop of mergeValueContent from the k-th child of the merge object on
RECURSIVE mergeValueContentLoop(_, _, _)
mergeValueContentLoop(baseContent, mergeContent, k) ==
    IF k > Len(mergeContent.Children) THEN
        [kind |-> "nil", err |-> NoErr, content |-> baseContent]
    ELSE
        LET Iterated(r) ==
                IF r.kind = "continue"
                THEN mergeValueContentLoop(r.baseContent, mergeContent, k + 1)
                ELSE [kind |-> r.kind, err |-> NoErr, content |-> NilContent]
        IN  Only({Iterated(r) :
                    r \in {mergeValueContentIter(baseContent, mergeContent,
                                                 mergeContent.Children[k])}})

\* mergeValueContent
mergeValueContent(baseValue, mergeValue, currentPath) ==
    IF baseValue.Type = ObjectType THEN
        IF mergeValue.Type = ObjectType
        THEN mergeValueContentLoop(baseValue, mergeValue, 1)
        ELSE [kind |-> "err",
              err |-> ErrMisMatchedTypes(currentPath, baseValue.Type, mergeValue.Type),
              content |-> NilContent]
    ELSE [kind |-> "err", err |-> ErrUnhandledType(currentPath, baseValue.Type),
          content |-> NilContent]

\* MergeJSON: what it returns, and the base document of the caller, whose
\* RootValue the result points to
MergeJSON(baseDoc, mergeDoc) ==
    LET Merged(r) ==
            IF r.kind # "nil" THEN
                [kind |-> r.kind, result |-> NilRootNode, err |-> r.err,
                 baseDocument |-> baseDoc]
            ELSE
                [kind |-> "ok",
                 result |-> [baseDoc EXCEPT !.RootValue.Content = r.content],
                 err |-> NoErr,
                 baseDocument |-> [baseDoc EXCEPT !.RootValue.Content = r.content]]
    IN  Only({Merged(r) : r \in {mergeValueContent(baseDoc.RootValue.Content,
                                                   mergeDoc.RootValue.Content,
                                                   <<"$">>)}})

(***************************************************************************)
(* The documents and the queries of the model.                             *)
(***************************************************************************)
KA == <<"a">>
KB == <<"b">>

\* {"a":{"a":1,"b":[true,{"b":"s"}]},"b":["s",[2]]}
DocNested ==
    JObj(<< <<KA, JObj(<< <<KA, JLit(IntVal(1))>>,
                          <<KB, JArr(<<JLit(BoolVal(TRUE)),
                                       JObj(<< <<KB, JLit(StringVal(<<"s">>))>> >>)>>)>> >>)>>,
            <<KB, JArr(<<JLit(StringVal(<<"s">>)), JArr(<<JLit(IntVal(2))>>)>>)>> >>)

\* {"a":1,"a":{"b":2,"b":"y"},"a":[true]}
DocDuplicates ==
    JObj(<< <<KA, JLit(IntVal(1))>>,
            <<KA, JObj(<< <<KB, JLit(IntVal(2))>>,
                          <<KB, JLit(StringVal(<<"y">>))>> >>)>>,
            <<KA, JArr(<<JLit(BoolVal(TRUE))>>)>> >>)

\* {"a":1,"b":{"":5,"a":[]}}
DocLiterals ==
    JObj(<< <<KA, JLit(IntVal(1))>>,
            <<KB, JObj(<< <<<<>>, JLit(IntVal(5))>>,
                          <<KA, JArr(<<>>)>> >>)>> >>)

\* [[],{"a":null,"b":["s"]}]
DocArray ==
    JArr(<<JArr(<<>>),
           JObj(<< <<KA, JLit(NilVal)>>,
                   <<KB, JArr(<<JLit(StringVal(<<"s">>))>>)>> >>)>>)

\* ["t",[false,{"a":{"a":7},"a":[3]}]]
DocArrayNested ==
    JArr(<<JLit(StringVal(<<"t">>)),
           JArr(<<JLit(BoolVal(FALSE)),
                  JObj(<< <<KA, JObj(<< <<KA, JLit(IntVal(7))>> >>)>>,
                          <<KA, JArr(<<JLit(IntVal(3))>>)>> >>)>>)>>)

Docs == {DocNested, DocDuplicates, DocLiterals, DocArray, DocArrayNested,
         JObj(<<>>), JArr(<<>>)}

\* the documents of the merges: base objects of at most MaxBaseProps and merge
\* objects of at most MaxMergeProps properties, with and without their commas,
\* and an array
MaxBaseProps == 2
MaxMergeProps == 3
KC == <<"c">>
KD == <<"d">>

Whitespace == StructuralItem(WhitespaceStructuralItemType, <<" ">>)
LineComment == StructuralItem(LineCommentStructuralItemType, <<"/", "/", "x">>)

BaseProperty(key, hasCommaSeparator) ==
    AstProperty(key,
                AstValue(AstLiteral(IntVal(1)),
                         IF key = KA THEN <<LineComment, Whitespace>> ELSE <<>>),
                hasCommaSeparator)
MergeProperty(key, hasCommaSeparator) ==
    AstProperty(key, AstValue(AstLiteral(IntVal(2)), <<>>), hasCommaSeparator)

BaseProperties == {BaseProperty(k, c) : k \in {KA, KB}, c \in BOOLEAN}
MergeProperties == {MergeProperty(k, c) : k \in {KA, KC, KD}, c \in BOOLEAN}
PropertyLists(properties, max) == UNION {[1..n -> properties] : n \in 0..max}

EmptyDocument == RootNode(AstObject(<<>>, <<>>))
ArrayDocument == RootNode(AstArray(<<>>, <<>>))
BaseDocuments ==
    {RootNode(AstObject(children, <<Whitespace>>)) :
        children \in PropertyLists(BaseProperties, MaxBaseProps)} \cup {ArrayDocument}
MergeDocuments ==
    {RootNode(AstObject(children, <<LineComment>>)) :
        children \in PropertyLists(MergeProperties, MaxMergeProps)} \cup {ArrayDocument}

\* the access tokens the queries of the model are compiled from
Keys == {KA, KB}
Indexes == {0, 1}
Tokens == {KeyToken(k) : k \in Keys} \cup {IndexToken(n) : n \in Indexes}
TokenSeqs == UNION {[1..n -> Tokens] : n \in 1..MaxTokens}

\* the query text of a token sequence
RECURSIVE Selectors(_)
Selectors(toks) ==
    IF toks = <<>> THEN <<>>
    ELSE (IF Head(toks).accessType = ObjectAccess
          THEN <<".">> \o Head(toks).key
          ELSE <<"[">> \o Itoa(Head(toks).index) \o <<"]">>)
         \o Selectors(Tail(toks))

QueryText(toks) == <<"$">> \o Selectors(toks)

\* every string of at most two of these characters
RootChars == {"$", ".", "[", "a"}
ShortQueries == {<<>>} \cup {<<x>> : x \in RootChars}
                  \cup {<<x, y>> : x \in RootChars, y \in RootChars}

\* queries with a malformed or unusual rest
OddQueries == {<<"$", "a", ".", "b">>, <<"$", "[", "a", "]">>,
               <<"$", ".", "a", "[">>, <<"$", "[", "0", "]", "x">>,
               <<"$", ".", "a", "[", "]">>, <<"$", ".", "b", ".">>,
               <<"$", "x", "[", "0", "]">>, <<"a", ".", "b">>,
               <<"[", "0", "]">>, <<".", "a">>}

Queries == {QueryText(toks) : toks \in TokenSeqs} \cup ShortQueries \cup OddQueries

(***************************************************************************)
(* State.                                                                  *)
(***************************************************************************)
VARIABLES
    input,        \* Client.input
    tree,         \* Client.tree
    query,        \* Client.query
    parsedQuery,  \* Client.parsedQuery
    result,       \* Client.result
    resultValue,  \* Client.resultValue
    call,         \* the last call made on the client: its method and argument
    ret,          \* what that call handed back
    steps,        \* the local variables each loop iteration of that call began with
    goroutines,   \* the goroutines that share the client: where each is in its GetString
    baseDocument, \* the base document a caller of MergeJSON holds
    mergeDocument,\* the document it merges into it
    mergeArgs,    \* the two documents as they were passed to the last MergeJSON call
    mergeRet      \* what that call handed back

clientVars == <<input, tree, query, parsedQuery, result, resultValue, call, ret, steps,
                goroutines>>
mergeVars == <<baseDocument, mergeDocument, mergeArgs, mergeRet>>
vars == <<input, tree, query, parsedQuery, result, resultValue, call, ret, steps,
          goroutines, baseDocument, mergeDocument, mergeArgs, mergeRet>>

\* the Client struct
Client ==
    [input |-> input, tree |-> tree, query |-> query,
     parsedQuery |-> parsedQuery, result |-> result, resultValue |-> resultValue]

\* the client becomes c
SetClient(c) ==
    /\ input' = c.input
    /\ tree' = c.tree
    /\ query' = c.query
    /\ parsedQuery' = c.parsedQuery
    /\ result' = c.result
    /\ resultValue' = c.resultValue

NoCall == [api |-> "none", query |-> <<>>]

\* the goroutines of the concurrent specification
Goroutines == {1, 2}

\* the local variables of executeQuery before executeQueryStart sets them
ZeroLoc ==
    [i |-> 0, obj |-> ZeroObject, arr |-> ZeroArray, currentType |-> ObjectType,
     parsedQueryLen |-> 0]

\* a goroutine that has not called yet
Idle == [pc |-> "idle", query |-> <<>>, loc |-> ZeroLoc, ret |-> NotReturned]

\* no MergeJSON call made, nothing handed back
NoMergeCall == [called |-> FALSE, base |-> NilRootNode, merge |-> NilRootNode]
NotMerged == [kind |-> "none", result |-> NilRootNode, err |-> NoErr]

\* a client of one of the documents js, nothing called on it
InitClient(js) ==
    /\ \E j \in js :
          \E c \in {NewFromString(j)} :
              /\ input = c.input
              /\ tree = c.tree
              /\ query = c.query
              /\ parsedQuery = c.parsedQuery
              /\ result = c.result
              /\ resultValue = c.resultValue
    /\ call = NoCall
    /\ ret = NotReturned
    /\ steps = <<>>
    /\ goroutines = [g \in Goroutines |-> Idle]

\* a base document of bs and a merge document of ms, not merged yet
InitDocuments(bs, ms) ==
    /\ baseDocument \in bs
    /\ mergeDocument \in ms
    /\ mergeArgs = NoMergeCall
    /\ mergeRet = NotMerged

Init ==
    /\ InitClient(Docs)
    /\ InitDocuments({EmptyDocument}, {EmptyDocument})

\* a caller runs c.GetString(q)
CallGetString(q) ==
    /\ call = NoCall
    /\ \E r \in {GetString(Client, q)} :
           /\ SetClient(r.c)
           /\ call' = [api |-> "GetString", query |-> q]
           /\ ret' = r.ret
           /\ steps' = r.steps
           /\ UNCHANGED <<goroutines, mergeVars>>

\* a caller runs c.GetObject(q)
CallGetObject(q) ==
    /\ call = NoCall
    /\ \E r \in {GetObject(Client, q)} :
           /\ SetClient(r.c)
           /\ call' = [api |-> "GetObject", query |-> q]
           /\ ret' = r.ret
           /\ steps' = r.steps
           /\ UNCHANGED <<goroutines, mergeVars>>

\* the caller has taken what the call handed back (a panic recovered) and goes on
\* to use the client again
CallerContinues ==
    /\ call # NoCall
    /\ call' = NoCall
    /\ ret' = NotReturned
    /\ steps' = <<>>
    /\ UNCHANGED <<input, tree, query, parsedQuery, result, resultValue, goroutines,
                   mergeVars>>

Next ==
    \/ \E q \in Queries : CallGetString(q)
    \/ \E q \in Queries : CallGetObject(q)
    \/ CallerContinues

Spec == Init /\ [][Next]_vars

(***************************************************************************)
(* Goroutines calling GetString on one client at the same time.  Each      *)
(* makes one call; a step is one access to the fields of the shared        *)
(* Client: setQuery, parseQuery, the start of executeQuery, one iteration  *)
(* of its loop, and the read of c.result in get.                           *)
(***************************************************************************)
ConcurrentQueries ==
    {QueryText(<<KeyToken(KA)>>), QueryText(<<KeyToken(KB)>>),
     QueryText(<<KeyToken(KA), KeyToken(KB)>>),
     QueryText(<<IndexToken(0)>>), QueryText(<<IndexToken(1), KeyToken(KB)>>),
     <<"$", "x">>}

\* goroutine g becomes gr
SetGoroutine(g, gr) == goroutines' = [goroutines EXCEPT ![g] = gr]

\* goroutine g has returned ret from its call
GoReturned(g, r) == [goroutines[g] EXCEPT !.pc = "returned", !.ret = r]

\* g enters GetString(q): validateQueryRoot, then setQuery
GoSetQuery(g, q) ==
    /\ goroutines[g].pc = "idle"
    /\ \E v \in {validateQueryRoot(q, tree.Type)} :
           IF v.kind # "nil" THEN
               /\ SetGoroutine(g, [GoReturned(g, Returned(v.kind, v.err, <<>>, NilGo))
                                      EXCEPT !.query = q])
               /\ UNCHANGED query
           ELSE
               /\ SetGoroutine(g, [goroutines[g] EXCEPT !.pc = "parseQuery", !.query = q])
               /\ query' = setQuery(Client, StringToBytes(q)).query
    /\ UNCHANGED <<input, tree, parsedQuery, result, resultValue, call, ret, steps,
                   mergeVars>>

\* g runs parseQuery on the client's query
GoParseQuery(g) ==
    /\ goroutines[g].pc = "parseQuery"
    /\ \E p \in {parseQuery(Client)} :
           /\ parsedQuery' = p.c.parsedQuery
           /\ IF p.kind # "nil"
              THEN SetGoroutine(g, GoReturned(g, Returned(p.kind, p.err, <<>>, NilGo)))
              ELSE SetGoroutine(g, [goroutines[g] EXCEPT !.pc = "executeQuery"])
    /\ UNCHANGED <<input, tree, query, result, resultValue, call, ret, steps,
                   mergeVars>>

\* g enters executeQuery and sets its local variables
GoExecuteStart(g) ==
    /\ goroutines[g].pc = "executeQuery"
    /\ \E loc \in {executeQueryStart(Client)} :
           SetGoroutine(g, [goroutines[g] EXCEPT
                               !.pc = IF loc.parsedQueryLen = 0 THEN "get" ELSE "loop",
                               !.loc = loc])
    /\ UNCHANGED <<input, tree, query, parsedQuery, result, resultValue, call, ret,
                   steps,
                   mergeVars>>

\* g runs one iteration of the loop of executeQuery
GoExecuteIter(g) ==
    /\ goroutines[g].pc = "loop"
    /\ \E r \in {executeQueryIter(Client, goroutines[g].loc)} :
           /\ result' = r.c.result
           /\ resultValue' = r.c.resultValue
           /\ IF r.kind # "continue"
              THEN SetGoroutine(g, GoReturned(g, Returned(r.kind, r.err, <<>>, NilGo)))
              ELSE SetGoroutine(g, [goroutines[g] EXCEPT
                                      !.pc = IF r.loc.i >= r.loc.parsedQueryLen
                                             THEN "get" ELSE "loop",
                                      !.loc = r.loc])
    /\ UNCHANGED <<input, tree, query, parsedQuery, call, ret, steps,
                   mergeVars>>

\* g is back in get and returns c.result
GoReadResult(g) ==
    /\ goroutines[g].pc = "get"
    /\ SetGoroutine(g, GoReturned(g, Returned("ok", NoErr, result, NilGo)))
    /\ UNCHANGED <<input, tree, query, parsedQuery, result, resultValue, call, ret,
                   steps,
                   mergeVars>>

NextConcurrent ==
    \/ \E g \in Goroutines, q \in ConcurrentQueries : GoSetQuery(g, q)
    \/ \E g \in Goroutines : GoParseQuery(g)
    \/ \E g \in Goroutines : GoExecuteStart(g)
    \/ \E g \in Goroutines : GoExecuteIter(g)
    \/ \E g \in Goroutines : GoReadResult(g)

SpecConcurrent == Init /\ [][NextConcurrent]_vars

(***************************************************************************)
(* A caller of MergeJSON: it merges its two documents, takes what the call *)
(* handed back and may merge again into the base document the call left.   *)
(***************************************************************************)
\* the caller runs MergeJSON(baseDocument, mergeDocument)
CallMergeJSON ==
    /\ ~mergeArgs.called
    /\ \E r \in {MergeJSON(baseDocument, mergeDocument)} :
           /\ baseDocument' = r.baseDocument
           /\ mergeRet' = [kind |-> r.kind, result |-> r.result, err |-> r.err]
    /\ mergeArgs' = [called |-> TRUE, base |-> baseDocument, merge |-> mergeDocument]
    /\ UNCHANGED <<mergeDocument, clientVars>>

\* the caller has taken what the call handed back (a panic recovered)
MergeCallerContinues ==
    /\ mergeArgs.called
    /\ mergeArgs' = NoMergeCall
    /\ mergeRet' = NotMerged
    /\ UNCHANGED <<baseDocument, mergeDocument, clientVars>>

InitMerge ==
    /\ InitClient({JObj(<<>>)})
    /\ InitDocuments(BaseDocuments, MergeDocuments)

NextMerge ==
    \/ CallMergeJSON
    \/ MergeCallerContinues

SpecMerge == InitMerge /\ [][NextMerge]_vars

(***************************************************************************)
(* Vocabulary of the properties.                                           *)
(***************************************************************************)
\* the last call ran at least one iteration of executeQuery; parsedQuery is
\* then the token sequence compiled for that call
Executed == call # NoCall /\ steps # <<>>

\* the token the k-th executed iteration applied, and the cursor it held
TokenAt(k) == parsedQuery[k]
CursorIsObject(k) == steps[k].currentType = ObjectType
CursorIsArray(k) == steps[k].currentType = ArrayType
IsFinal(k) == k = Len(parsedQuery)

\* the error classes
IsMissingRootSelector(e) == e = ErrNoDollarSignRoot
IsRootSelectorMismatch(e) ==
    e = ErrWrongObjectRootSelector \/ e = ErrWrongArrayRootSelector
IsTypeMismatch(e) == e = ErrAskedObjectFoundArray \/ e = ErrAskedArrayFoundObject
IsUnexpectedLiteral(e) == e = ErrQueryNotQuiteRight
IsIndexOutOfBounds(e) == e.name = "IndexOutOfBounds"

\* no value: what stands for a token sequence that cannot be followed
Unresolved == [Type |-> "none"]

\* the value found by following toks in order from value: first key match in
\* declaration order, item at the index
RECURSIVE Follow(_, _)
Follow(value, toks) ==
    IF toks = <<>> THEN value
    ELSE LET t == Head(toks)
         IN  IF t.accessType = ObjectAccess /\ value.Type = ObjectType
                   /\ FirstKey(value.Children, t.key) # 0
             THEN Follow(value.Children[FirstKey(value.Children, t.key)].Value,
                         Tail(toks))
             ELSE IF t.accessType = ArrayAccess /\ value.Type = ArrayType
                       /\ t.index < Len(value.Children)
             THEN Follow(value.Children[t.index + 1], Tail(toks))
             ELSE Unresolved

\* the text a terminal value is returned as
Rendering(value) ==
    IF value.Type = LiteralType THEN LiteralString(value)
    ELSE Slice(input, value.Start, value.End)

(***************************************************************************)
(* C1: when every token of the compiled query resolves (each non-final one *)
(* to an object or array, the final one to an existing key or index), the  *)
(* query returns no error and its result is the value found by following   *)
(* the tokens from the root: the source slice [Start,End) of an object or  *)
(* array, the rendering of a literal.                                      *)
(***************************************************************************)
C1_ResolvableQueryReturnsFollowedValue ==
    (Executed /\ Follow(tree.RootValue, parsedQuery) # Unresolved) =>
        LET v == Follow(tree.RootValue, parsedQuery)
        IN  /\ ret.kind = "ok"
            /\ ret.err = NoErr
            /\ resultValue = v
            /\ result = Rendering(v)
            /\ call.api = "GetString" => ret.value = Rendering(v)

\* a two-token query has returned the source slice of an object
C1_Witness ==
    /\ Executed
    /\ call.api = "GetString"
    /\ Len(parsedQuery) = 2
    /\ Follow(tree.RootValue, parsedQuery) # Unresolved
    /\ Follow(tree.RootValue, parsedQuery).Type = ObjectType
    /\ ret.kind = "ok"
    /\ Len(ret.value) >= 2
    /\ ret.value[1] = "{"

(***************************************************************************)
(* C2: an array-index token applied to an array cursor with an index >=    *)
(* the array's length makes the query fail with a returned                 *)
(* IndexOutOfBounds error, at a final or a non-final position.             *)
(***************************************************************************)
C2_IndexOutOfBoundsIsReturned ==
    Executed =>
        \A k \in 1..Len(steps) :
            (/\ TokenAt(k).accessType = ArrayAccess
             /\ CursorIsArray(k)
             /\ TokenAt(k).index >= Len(steps[k].arr.Children))
            => (ret.kind = "err" /\ IsIndexOutOfBounds(ret.err))

\* the token of the k-th iteration finds a literal at the cursor it is applied to
ResolvesToLiteral(k) ==
    \/ /\ TokenAt(k).accessType = ObjectAccess
       /\ CursorIsObject(k)
       /\ FirstKey(steps[k].obj.Children, TokenAt(k).key) # 0
       /\ steps[k].obj.Children[FirstKey(steps[k].obj.Children,
                                         TokenAt(k).key)].Value.Type = LiteralType
    \/ /\ TokenAt(k).accessType = ArrayAccess
       /\ CursorIsArray(k)
       /\ TokenAt(k).index < Len(steps[k].arr.Children)
       /\ steps[k].arr.Children[TokenAt(k).index + 1].Type = LiteralType

(***************************************************************************)
(* C3: a non-final token that resolves to a literal, by key or by index,   *)
(* makes the query fail with UnexpectedLiteral.                            *)
(***************************************************************************)
C3_NonFinalLiteralFails ==
    Executed =>
        \A k \in 1..Len(steps) :
            (~IsFinal(k) /\ ResolvesToLiteral(k))
            => (ret.kind = "err" /\ IsUnexpectedLiteral(ret.err))

(***************************************************************************)
(* C4: every query call ends by returning a result or an error value,      *)
(* never by a crash, whatever the query string.                            *)
(***************************************************************************)
C4_CallsNeverCrash ==
    call # NoCall => ret.kind \in {"ok", "err"}

\* the client as NewFromString left it
FreshClient ==
    [input |-> input, tree |-> tree, query |-> <<>>, parsedQuery |-> <<>>,
     result |-> <<>>, resultValue |-> NilValue]

(***************************************************************************)
(* C5: queries that run concurrently against the same parsed tree are      *)
(* safe: under every interleaving of their steps each returns what it      *)
(* returns when it runs alone.                                             *)
(***************************************************************************)
C5_ConcurrentQueriesReturnAsAlone ==
    \A g \in Goroutines :
        goroutines[g].pc = "returned" =>
            goroutines[g].ret = GetString(FreshClient, goroutines[g].query).ret

(***************************************************************************)
(* C6: query outcomes are history-independent: after any sequence of       *)
(* earlier queries on the tree, a query returns what it returns as the     *)
(* first query on a freshly parsed tree.                                   *)
(***************************************************************************)
C6_OutcomeIsHistoryIndependent ==
    /\ call.api = "GetString" => ret = GetString(FreshClient, call.query).ret
    /\ call.api = "GetObject" => ret = GetObject(FreshClient, call.query).ret

\* a query has failed on a missing key and returned no value while the client
\* still holds the result of an earlier query
C6_Witness ==
    /\ call.api = "GetString"
    /\ ret.kind = "err"
    /\ ret.err.name = "KeyNotFound"
    /\ ret.value = <<>>
    /\ result # <<>>
    /\ resultValue # NilValue

\* what a call beginning in this step must do about the root of its query
C7_Step ==
    (call = NoCall /\ call' # NoCall /\ Len(call'.query) >= 1) =>
        LET q == call'.query
        IN  /\ q[1] # "$" =>
                /\ ret'.kind = "err"
                /\ IsMissingRootSelector(ret'.err)
                /\ UNCHANGED <<query, parsedQuery>>
            /\ (q[1] = "$" /\ Len(q) >= 2 /\ tree.Type = ObjectRoot /\ q[2] # ".") =>
                /\ ret'.kind = "err"
                /\ ret'.err = ErrWrongObjectRootSelector
                /\ UNCHANGED <<query, parsedQuery>>
            /\ (q[1] = "$" /\ Len(q) >= 2 /\ tree.Type = ArrayRoot /\ q[2] # "[") =>
                /\ ret'.kind = "err"
                /\ ret'.err = ErrWrongArrayRootSelector
                /\ UNCHANGED <<query, parsedQuery>>

(***************************************************************************)
(* C7: a query whose first character is not `$` fails with                 *)
(* MissingRootSelector; a query that starts with `$` and has a second      *)
(* character fails with RootSelectorMismatch when that character is not    *)
(* `.` on an ObjectRoot tree, not `[` on an ArrayRoot tree, whatever the   *)
(* rest of the query is: the check precedes tokenizing, so the client's    *)
(* query and token sequence are left as they were.                         *)
(***************************************************************************)
C7_RootSelectorCheckedFirst == [][C7_Step]_vars

\* on an object root, `$[a]` (a malformed bracket) has failed with the root
\* selector mismatch, the client still holding an earlier query's tokens
C7_Witness ==
    /\ call.query = <<"$", "[", "a", "]">>
    /\ tree.Type = ObjectRoot
    /\ ret.kind = "err"
    /\ IsRootSelectorMismatch(ret.err)
    /\ parsedQuery # <<>>

(***************************************************************************)
(* C8: an object-key token applied while the cursor is an array, and an    *)
(* array-index token applied while the cursor is an object, make the query *)
(* fail with a returned TypeMismatch error, at every position and for      *)
(* every cursor content.                                                   *)
(***************************************************************************)
C8_TypeMismatchIsReturned ==
    Executed =>
        \A k \in 1..Len(steps) :
            /\ (TokenAt(k).accessType = ObjectAccess /\ CursorIsArray(k))
                => (ret.kind = "err" /\ ret.err = ErrAskedObjectFoundArray)
            /\ (TokenAt(k).accessType = ArrayAccess /\ CursorIsObject(k))
                => (ret.kind = "err" /\ ret.err = ErrAskedArrayFoundObject)

\* the properties of children whose key is key
KeyMatches(children, key) ==
    {m \in 1..Len(children) : children[m].Key.Value = key}

\* the cursor the k-th iteration started with, as a value
CursorValue(k) == IF CursorIsObject(k) THEN steps[k].obj ELSE steps[k].arr

\* the generic form in which the first property of a key wins
RECURSIVE FirstMatchGoType(_)
FirstMatchGoType(value) ==
    CASE value.Type = LiteralType -> [g |-> "lit", v |-> value.Value]
      [] value.Type = ArrayType ->
            [g |-> "seq",
             s |-> [k \in 1..Len(value.Children) |->
                        FirstMatchGoType(value.Children[k])]]
      [] value.Type = ObjectType ->
            [g |-> "map",
             m |-> [x \in {value.Children[k].Key.Value : k \in 1..Len(value.Children)} |->
                        FirstMatchGoType(
                            value.Children[FirstKey(value.Children, x)].Value)]]

(***************************************************************************)
(* C9: key lookup is first-match in declaration order: on an object with   *)
(* several properties of one key, every query step on that key, final or   *)
(* not, resolves to the first of them, and the generic (GetObject) form of *)
(* an object maps the key to the first one's value.                        *)
(***************************************************************************)
C9_FirstMatchWins ==
    /\ Executed =>
         \A k \in 1..Len(steps) :
            (/\ TokenAt(k).accessType = ObjectAccess
             /\ CursorIsObject(k)
             /\ Cardinality(KeyMatches(steps[k].obj.Children, TokenAt(k).key)) >= 2)
            => LET first == steps[k].obj.Children[
                               FirstKey(steps[k].obj.Children, TokenAt(k).key)].Value
               IN  /\ (k < Len(steps)) => CursorValue(k + 1) = first
                   /\ (IsFinal(k) /\ ret.kind = "ok") => resultValue = first
    /\ (call.api = "GetObject" /\ ret.kind = "ok") =>
         ret.goValue = FirstMatchGoType(resultValue)

(***************************************************************************)
(* C10: an object-key token applied to an object cursor that has no        *)
(* property with the requested key, at a final or a non-final position,    *)
(* makes the query fail with a returned KeyNotFound error naming the key,  *)
(* and the caller gets no result value.                                    *)
(***************************************************************************)
C10_KeyNotFoundIsReturned ==
    Executed =>
        \A k \in 1..Len(steps) :
            (/\ TokenAt(k).accessType = ObjectAccess
             /\ CursorIsObject(k)
             /\ FirstKey(steps[k].obj.Children, TokenAt(k).key) = 0)
            => /\ ret.kind = "err"
               /\ ret.err = ErrKeyNotFound(TokenAt(k).key)
               /\ ret.value = <<>>
               /\ ret.goValue = NilGo

\* the first of two tokens asked a non-empty object for a key it does not hold,
\* after an earlier query left a result on the client
C10_Witness ==
    /\ Executed
    /\ Len(parsedQuery) = 2
    /\ Len(steps) = 1
    /\ TokenAt(1).accessType = ObjectAccess
    /\ CursorIsObject(1)
    /\ steps[1].obj.Children # <<>>
    /\ FirstKey(steps[1].obj.Children, TokenAt(1).key) = 0
    /\ ret.kind = "err"
    /\ ret.err.name = "KeyNotFound"
    /\ result # <<>>

(***************************************************************************)
(* C11: no query changes the tree: a call, whether it returns a result,    *)
(* returns a compile or traversal error or crashes, leaves the root tag,   *)
(* every node with its span and the source buffer as they were before it,  *)
(* and so does the caller going on to the next call.                       *)
(***************************************************************************)
C11_QueriesLeaveTreeUnchanged ==
    [][tree' = tree /\ input' = input]_vars

\* a traversal error came back after an earlier query had left its result, and
\* the client still holds the parsed tree and the source of its document
C11_Witness ==
    /\ Executed
    /\ ret.kind = "err"
    /\ ret.err.name = "KeyNotFound"
    /\ result # <<>>
    /\ resultValue # NilValue
    /\ \E j \in Docs : tree = ParseJSON(j) /\ input = SourceText(j)

\* gv is a recursive generic form of value: the native value of a literal, one
\* element per item of an array, one entry per property key of an object
RECURSIVE IsGenericForm(_, _)
IsGenericForm(value, gv) ==
    CASE value.Type = LiteralType -> gv = [g |-> "lit", v |-> value.Value]
      [] value.Type = ArrayType ->
            /\ gv.g = "seq"
            /\ Len(gv.s) = Len(value.Children)
            /\ \A i \in 1..Len(value.Children) :
                   IsGenericForm(value.Children[i], gv.s[i])
      [] value.Type = ObjectType ->
            /\ gv.g = "map"
            /\ DOMAIN gv.m =
                   {value.Children[k].Key.Value : k \in 1..Len(value.Children)}
            /\ \A key \in DOMAIN gv.m :
                   \E k \in 1..Len(value.Children) :
                       /\ value.Children[k].Key.Value = key
                       /\ IsGenericForm(value.Children[k].Value, gv.m[key])
      [] OTHER -> FALSE

(***************************************************************************)
(* C12: a GetObject call that returns hands back either a value and no     *)
(* error or an error and no value.  The value is a recursive generic form  *)
(* of the terminal value the query resolves to, the one GetString of the   *)
(* same query renders: the native value of a literal, a sequence with one  *)
(* generic form per item of an array in item order, a mapping whose keys   *)
(* are exactly the property keys of an object, each bound to the generic   *)
(* form of a property with that key.  The error is the one the failing     *)
(* query returns.                                                          *)
(***************************************************************************)
C12_GetObjectReturnsGenericForm ==
    (call.api = "GetObject" /\ ret.kind \in {"ok", "err"}) =>
        \E s \in {GetString(Client, call.query).ret} :
            IF s.kind = "ok" THEN
                /\ ret.kind = "ok"
                /\ ret.err = NoErr
                /\ resultValue # NilValue
                /\ s.value = Rendering(resultValue)
                /\ IsGenericForm(resultValue, ret.goValue)
            ELSE
                /\ ret.kind = "err"
                /\ ret.err # NoErr
                /\ ret.err = s.err
                /\ ret.goValue = NilGo

\* GetObject has returned the mapping of an object that has one key twice, one
\* of its values an object and the other a non-empty array
C12_Witness ==
    /\ call.api = "GetObject"
    /\ ret.kind = "ok"
    /\ resultValue.Type = ObjectType
    /\ Len(resultValue.Children) = 2
    /\ resultValue.Children[1].Key = resultValue.Children[2].Key
    /\ resultValue.Children[1].Value.Type = ObjectType
    /\ ret.goValue.g = "map"
    /\ \E key \in DOMAIN ret.goValue.m :
           /\ ret.goValue.m[key].g = "seq"
           /\ Len(ret.goValue.m[key].s) = 1

\* the last MergeJSON call: the root contents it was passed, what it returned
Merged == mergeArgs.called
BaseContent == mergeArgs.base.RootValue.Content
MergeContent == mergeArgs.merge.RootValue.Content
ResultContent == mergeRet.result.RootValue.Content

\* the key and the value content of each property, in order
KeyValues(children) ==
    [k \in 1..Len(children) |-> <<children[k].Key.Value, children[k].Value.Content>>]

PropertyKeys(children) == {children[k].Key.Value : k \in 1..Len(children)}

\* the properties of mergeChildren from the k-th on whose key is not in seen,
\* the first of each key, in order
RECURSIVE NewProperties(_, _, _)
NewProperties(mergeChildren, k, seen) ==
    IF k > Len(mergeChildren) THEN <<>>
    ELSE IF mergeChildren[k].Key.Value \in seen
         THEN NewProperties(mergeChildren, k + 1, seen)
         ELSE <<mergeChildren[k]>>
              \o NewProperties(mergeChildren, k + 1,
                               seen \cup {mergeChildren[k].Key.Value})

(***************************************************************************)
(* C13: MergeJSON of two object-root documents, the base object with at    *)
(* least one property, returns an object-root document whose properties    *)
(* are, by key and value content, those of the base in their order with    *)
(* the base's values, followed by the first property of each key of the    *)
(* merge document that the base does not have, in merge-document order.    *)
(***************************************************************************)
C13_MergeKeepsBaseAndAppendsNewKeys ==
    (/\ Merged
     /\ BaseContent.Type = ObjectType
     /\ MergeContent.Type = ObjectType
     /\ BaseContent.Children # <<>>)
    => /\ mergeRet.kind = "ok"
       /\ mergeRet.err = NoErr
       /\ mergeRet.result.Type = ObjectRoot
       /\ ResultContent.Type = ObjectType
       /\ KeyValues(ResultContent.Children) =
              KeyValues(BaseContent.Children)
                \o KeyValues(NewProperties(MergeContent.Children, 1,
                                           PropertyKeys(BaseContent.Children)))

\* the merge document had a key of the base and twice a key the base has not:
\* one property was appended
C13_Witness ==
    /\ Merged
    /\ mergeRet.kind = "ok"
    /\ Len(BaseContent.Children) = 2
    /\ Len(MergeContent.Children) = 3
    /\ MergeContent.Children[1].Key.Value \in PropertyKeys(BaseContent.Children)
    /\ MergeContent.Children[2].Key.Value \notin PropertyKeys(BaseContent.Children)
    /\ MergeContent.Children[3].Key = MergeContent.Children[2].Key
    /\ Len(ResultContent.Children) = 3
    /\ ResultContent.Children[3].Key = MergeContent.Children[2].Key

(***************************************************************************)
(* C14: every MergeJSON call ends with a result and no error or with no    *)
(* result and an error: an error when the base root is not an object, or   *)
(* is an object while the merge root is not; a result for every pair of    *)
(* object roots, whether or not the base or the merge object has           *)
(* properties.                                                             *)
(***************************************************************************)
C14_MergeReturnsResultOrError ==
    Merged =>
        /\ \/ mergeRet.kind = "ok" /\ mergeRet.result # NilRootNode
                                    /\ mergeRet.err = NoErr
           \/ mergeRet.kind = "err" /\ mergeRet.result = NilRootNode
                                     /\ mergeRet.err # NoErr
        /\ mergeRet.kind = "ok" <=>
               (BaseContent.Type = ObjectType /\ MergeContent.Type = ObjectType)

\* every property except possibly the last has its comma
CommasWellFormed(children) ==
    \A k \in 1..(Len(children) - 1) : children[k].HasCommaSeparator

(***************************************************************************)
(* C15: when every property but possibly the last of the base object and   *)
(* of the merge object has HasCommaSeparator set, every property but       *)
(* possibly the last of the object MergeJSON returns has it set, whichever *)
(* properties of the merge document were appended.                         *)
(***************************************************************************)
C15_MergeKeepsCommasWellFormed ==
    (/\ Merged
     /\ mergeRet.kind = "ok"
     /\ MergeContent.Type = ObjectType
     /\ CommasWellFormed(BaseContent.Children)
     /\ CommasWellFormed(MergeContent.Children))
    => /\ ResultContent.Type = ObjectType
       /\ CommasWellFormed(ResultContent.Children)

\* the last property of the base had no comma, and the first and the last of
\* the three properties of the merge document were appended after it
C15_Witness ==
    /\ Merged
    /\ mergeRet.kind = "ok"
    /\ CommasWellFormed(BaseContent.Children)
    /\ CommasWellFormed(MergeContent.Children)
    /\ Len(BaseContent.Children) = 2
    /\ ~BaseContent.Children[2].HasCommaSeparator
    /\ Len(MergeContent.Children) = 3
    /\ ~MergeContent.Children[3].HasCommaSeparator
    /\ MergeContent.Children[2].Key.Value \in PropertyKeys(BaseContent.Children)
    /\ Len(ResultContent.Children) = 4
    /\ ResultContent.Children[2].HasCommaSeparator
    /\ ResultContent.Children[3].HasCommaSeparator
    /\ ~ResultContent.Children[4].HasCommaSeparator

====
